---- MODULE Spec2Model ----
(***************************************************************************)
(* Session backends of openai-agents-session: RedisSession (redis.py) and  *)
(* DynamoDBSession (dynamodb.py), with the Redis server and the DynamoDB   *)
(* table they talk to.  Every await on the backend client is one atomic    *)
(* step; the code a coroutine runs between two awaits belongs to the step  *)
(* of the await that precedes it.                                          *)
(***************************************************************************)
EXTENDS Integers, Sequences, FiniteSets, Bags, TLC

VARIABLES
    now,      \* time.time() (dynamodb.py:84) and the clock of Redis EXPIRE
    redis,    \* the keyspace behind RedisSession._client: key -> [list, expire_at]
    tables,   \* InMemoryDynamoDBClient._tables: table name -> session_id -> item
    schema,   \* the tables DynamoDB describes: table name -> its description
    sess,     \* the session object each caller holds (the fields set by __init__)
    pc,       \* the await at which each caller's coroutine is suspended
    frame,    \* the locals of each caller's call in progress
    hist,     \* history: the last completed calls of each caller
    obs,      \* history: what is recorded ([keep: calls in hist, track: items])
    added,    \* history: every batch passed to a non-empty add_items
    popped    \* history: bag of the items pop_item returned

vars == <<now, redis, tables, schema, sess, pc, frame, hist, obs, added, popped>>

(***************************************************************************)
(* Bounds of the model.                                                    *)
(***************************************************************************)
MaxLen == 3        \* longest stored sequence explored
MaxBatch == 2      \* longest batch passed to add_items
MaxTime == 4       \* last clock value explored
MaxAdded == 3      \* items passed to add_items in a concurrent run
MaxPopped == 2     \* items returned by pop_item in a concurrent run

(***************************************************************************)
(* Python values.  None and optional values are sequences of length <= 1.  *)
(***************************************************************************)
None == <<>>
Some(x) == <<x>>

Callers == {"c1", "c2"}
Backends == {"redis", "dynamodb"}
default_key_prefix == "openai_agents_session"
KeyPrefixes == {default_key_prefix, default_key_prefix \o ":a"}
SessionIds == {"a", "b", "a:b"}
TableNames == {"test_table"}
TTL == 2

DictItem(owner, n) == [type |-> "dict", owner |-> owner, content |-> n]
ModelItem(owner, n) == [type |-> "model", owner |-> owner, content |-> n]
ObjectItem(owner, n) == [type |-> "object", owner |-> owner, content |-> n]

\* item.model_dump(mode="json")
model_dump(item) == [item EXCEPT !.type = "dict"]

\* json.dumps / json.loads: a str holding the JSON text of a value
json_dumps(v) == [type |-> "str", json |-> v]
json_loads(s) == s.json

\* str.encode("utf-8") done by the Redis client, bytes.decode("utf-8")
encode(s) == [type |-> "bytes", text |-> s]
decode(b) == b.text

MapSeq(Op(_), s) == [i \in 1..Len(s) |-> Op(s[i])]

\* hasattr(item, "model_dump") or isinstance(item, dict)
Serializable(item) == item.type \in {"model", "dict"}

\* The JSON value an item is stored as.
JsonForm(item) == IF item.type = "model" THEN model_dump(item) ELSE item

(***************************************************************************)
(* RedisSession: key and codec.                                            *)
(***************************************************************************)
\* A key that leaves the session_id out
Redis_key_prefix_only(s) == s.key_prefix

\* A key without the separator between prefix and session_id
Redis_key_unseparated(s) == s.key_prefix \o s.session_id

\* RedisSession._key
Redis_key(s) == s.key_prefix \o ":" \o s.session_id

\* RedisSession._serialize_item (applied to a serializable item)
Redis_serialize_item(item) == json_dumps(JsonForm(item))

\* RedisSession._deserialize_item
Redis_deserialize_item(data) ==
    json_loads(IF data.type = "bytes" THEN decode(data) ELSE data)

(***************************************************************************)
(* The Redis server's commands, as the client calls them.                  *)
(***************************************************************************)
EmptyMap == [k \in {} |-> 0]

MapPut(m, k, v) == [x \in DOMAIN m \cup {k} |-> IF x = k THEN v ELSE m[x]]
MapDel(m, k) == [x \in DOMAIN m \ {k} |-> m[x]]

\* LRANGE key start stop
lrange(db, key, start, stop) ==
    IF key \notin DOMAIN db THEN <<>>
    ELSE LET L == db[key].list
             n == Len(L)
             s0 == IF start < 0 THEN n + start ELSE start
             s == IF s0 < 0 THEN 0 ELSE s0
             e0 == IF stop < 0 THEN n + stop ELSE stop
             e == IF e0 >= n THEN n - 1 ELSE e0
         IN IF s > e \/ s >= n THEN <<>> ELSE SubSeq(L, s + 1, e + 1)

\* LPUSH instead of RPUSH: the values go to the head, the last one first
rpush_at_head(db, key, values) ==
    LET new == [i \in 1..Len(values) |-> encode(values[Len(values) + 1 - i])]
    IN IF key \in DOMAIN db
       THEN [db EXCEPT ![key].list = new \o @]
       ELSE [k \in DOMAIN db \cup {key} |->
               IF k = key THEN [list |-> new, expire_at |-> <<>>] ELSE db[k]]

\* RPUSH key value [value ...]: creates the list, keeps an expiration
rpush(db, key, values) ==
    IF key \in DOMAIN db
    THEN [db EXCEPT ![key].list = @ \o MapSeq(encode, values)]
    ELSE MapPut(db, key, [list |-> MapSeq(encode, values), expire_at |-> None])

\* LPOP instead of RPOP: the reply is the head of the list
rpop_reply_head(db, key) ==
    IF key \in DOMAIN db THEN <<db[key].list[1]>> ELSE <<>>

\* RPOP key: the reply (None for a missing key)
rpop_reply(db, key) ==
    IF key \in DOMAIN db THEN Some(db[key].list[Len(db[key].list)]) ELSE None

\* A read of the tail that removes nothing
rpop_keeps(db, key) == db

\* RPOP key: the keyspace afterwards; a list left empty is removed
rpop(db, key) ==
    IF key \notin DOMAIN db THEN db
    ELSE IF Len(db[key].list) = 1 THEN MapDel(db, key)
    ELSE [db EXCEPT ![key].list = SubSeq(@, 1, Len(@) - 1)]

\* EXPIRE ... NX: an expiration already set is not moved
expire_nx(db, key, seconds, t) ==
    IF key \notin DOMAIN db \/ db[key].expire_at # <<>> THEN db
    ELSE [db EXCEPT ![key].expire_at = <<t + seconds>>]

\* EXPIRE key seconds: no effect on a missing key
expire(db, key, seconds, t) ==
    IF key \notin DOMAIN db THEN db
    ELSE IF seconds <= 0 THEN MapDel(db, key)
    ELSE [db EXCEPT ![key].expire_at = Some(t + seconds)]

\* DEL of another key: the list stays
delete_other(db, key) == db

\* DEL key
delete(db, key) == MapDel(db, key)

\* The keys still alive at time t
Unexpired(db, t) ==
    [k \in {x \in DOMAIN db : db[x].expire_at = None \/ db[x].expire_at[1] > t}
        |-> db[k]]

(***************************************************************************)
(* DynamoDBSession: codec and record.                                      *)
(***************************************************************************)
\* _serialize_items that loses the last item
DynamoDB_serialize_items_but_last(items) ==
    json_dumps(MapSeq(JsonForm, SubSeq(items, 1, Len(items) - 1)))

\* DynamoDBSession._serialize_items (applied to serializable items)
DynamoDB_serialize_items(items) == json_dumps(MapSeq(JsonForm, items))

\* DynamoDBSession._deserialize_items
DynamoDB_deserialize_items(data) == json_loads(data)

\* DynamoDBSession._get_ttl_value
DynamoDB_get_ttl_value(s, t) ==
    IF s.ttl = None THEN None ELSE Some(t + s.ttl[1])

(***************************************************************************)
(* The DynamoDB client (InMemoryDynamoDBClient of the tests).              *)
(***************************************************************************)
\* What describe_table reports of a table made by create_table_if_not_exists
TableDescription(TableStatus, ttl_enabled) ==
    [KeySchema |-> <<[AttributeName |-> "session_id", KeyType |-> "HASH"]>>,
     AttributeDefinitions |-> <<[AttributeName |-> "session_id", AttributeType |-> "S"]>>,
     BillingMode |-> "PAY_PER_REQUEST",
     TableStatus |-> TableStatus,
     TimeToLive |-> [Enabled |-> ttl_enabled, AttributeName |-> "ttl"]]

\* get_item with ProjectionExpression="conversation_data": the response
get_item(tbls, TableName, session_id) ==
    IF TableName \in DOMAIN tbls /\ session_id \in DOMAIN tbls[TableName]
    THEN LET item == tbls[TableName][session_id]
         IN Some([a \in {"session_id", "conversation_data"} \cap DOMAIN item
                    |-> item[a]])
    ELSE None

\* put_item under attribute_not_exists(session_id): an item is never replaced
put_item_if_absent(tbls, TableName, Item) ==
    IF TableName \in DOMAIN tbls /\ Item.session_id.S \in DOMAIN tbls[TableName]
    THEN tbls
    ELSE [tbls EXCEPT ![TableName] =
            [x \in DOMAIN @ \cup {Item.session_id.S} |->
               IF x = Item.session_id.S THEN Item ELSE @[x]]]

\* put_item: replaces the whole item, unconditionally
put_item(tbls, TableName, Item) ==
    LET table == IF TableName \in DOMAIN tbls THEN tbls[TableName] ELSE EmptyMap
    IN MapPut(tbls, TableName, MapPut(table, Item.session_id.S, Item))

\* delete_item that deletes nothing
delete_item_nothing(tbls, TableName, session_id) == tbls

\* delete_item
delete_item(tbls, TableName, session_id) ==
    IF TableName \in DOMAIN tbls
    THEN [tbls EXCEPT ![TableName] = MapDel(@, session_id)]
    ELSE tbls

\* DynamoDBSession._get_raw_items, from the response of get_item
DynamoDB_get_raw_items(response) ==
    IF response = None THEN <<>>
    ELSE LET Item == response[1]
             items_data == IF "conversation_data" \in DOMAIN Item
                           THEN Item.conversation_data.S
                           ELSE json_dumps(<<>>)
         IN DynamoDB_deserialize_items(items_data)

\* DynamoDBSession._put_items: the item it writes at time t
DynamoDB_put_items_item(s, items, t) ==
    LET item == [session_id |-> [S |-> s.session_id],
                 conversation_data |-> [S |-> DynamoDB_serialize_items(items)],
                 updated_at |-> [N |-> ToString(t)]]
        ttl == DynamoDB_get_ttl_value(s, t)
    IN IF ttl # None THEN item @@ [ttl |-> [N |-> ToString(ttl[1])]] ELSE item

\* list[:limit] instead of list[-limit:]
SliceFirst(items, limit) ==
    SubSeq(items, 1, IF limit > Len(items) THEN Len(items) ELSE limit)

\* list[-limit:] guarded by "if limit > 0", everything otherwise
SliceLast_or_all(items, limit) ==
    IF limit <= 0 \/ limit >= Len(items) THEN items
    ELSE SubSeq(items, Len(items) - limit + 1, Len(items))

\* list[-limit:]
SliceLast(items, limit) ==
    LET n == Len(items)
        i0 == 0 - limit
        i == IF i0 < 0 THEN (IF n + i0 < 0 THEN 0 ELSE n + i0)
             ELSE (IF i0 > n THEN n ELSE i0)
    IN SubSeq(items, i + 1, n)

(***************************************************************************)
(* Calls in progress and the history of completed calls.                   *)
(***************************************************************************)
IdleFrame ==
    [op |-> "", arg |-> <<>>, t0 |-> 0, pre |-> None, calls |-> <<>>, tmp |-> <<>>]

LastN(s, n) == IF Len(s) <= n THEN s ELSE SubSeq(s, Len(s) - n + 1, Len(s))

\* What the backend holds for the session of s: None or the raw key / item
StoredEntry(s, db, tbls) ==
    IF s.backend = "redis"
    THEN (IF Redis_key(s) \in DOMAIN db THEN Some(db[Redis_key(s)]) ELSE None)
    ELSE (IF s.table_name \in DOMAIN tbls
             /\ s.session_id \in DOMAIN tbls[s.table_name]
          THEN Some(tbls[s.table_name][s.session_id]) ELSE None)

\* The item sequence a raw entry holds
EntryItems(s, e) ==
    IF e = None THEN <<>>
    ELSE IF s.backend = "redis" THEN MapSeq(Redis_deserialize_item, e[1].list)
    ELSE DynamoDB_get_raw_items(e)

StoredItems(s) == EntryItems(s, StoredEntry(s, redis, tables))

\* The call of caller c begins: its frame
Call(c, op, arg, calls, tmp) ==
    [op |-> op, arg |-> arg, t0 |-> now,
     pre |-> StoredEntry(sess[c], redis, tables), calls |-> calls, tmp |-> tmp]

\* The coroutine of c suspends at its next await
Suspend(c, label, f) ==
    /\ pc' = [pc EXCEPT ![c] = label]
    /\ frame' = [frame EXCEPT ![c] = f]
    /\ UNCHANGED hist

\* The call of c returns val (out = "ok") or raises out; db, tbls: the stores then
Return(c, f, out, val, db, tbls) ==
    /\ pc' = [pc EXCEPT ![c] = "idle"]
    /\ frame' = [frame EXCEPT ![c] = IdleFrame]
    /\ hist' = [hist EXCEPT ![c] = LastN(Append(@,
                   [op |-> f.op, arg |-> f.arg, t0 |-> f.t0, t1 |-> now,
                    pre |-> f.pre, post |-> StoredEntry(sess[c], db, tbls),
                    calls |-> f.calls, out |-> out, val |-> val]), obs.keep)]

WithCall(f, cmd) == [f EXCEPT !.calls = Append(@, cmd)]

\* history of the items passed to add_items and returned by pop_item
NoteAdded(items) ==
    added' = IF obs.track THEN added \cup {MapSeq(JsonForm, items)} ELSE added
NotePopped(reply) ==
    popped' = IF obs.track /\ reply # None
              THEN popped (+) SetToBag({reply[1]}) ELSE popped

(***************************************************************************)
(* RedisSession.                                                           *)
(***************************************************************************)
\* add_items without its early return
NoItems_never(items) == FALSE

\* "if not items: return" of add_items
NoItems(items) == items = <<>>

\* RedisSession.get_items up to the return of lrange
Redis_get_items(c, limit) ==
    LET s == sess[c]
        items == IF limit # None
                 THEN lrange(redis, Redis_key(s), 0 - limit[1], -1)
                 ELSE lrange(redis, Redis_key(s), 0, -1)
        f == Call(c, "get_items", limit, <<"lrange">>, items)
    IN /\ pc[c] = "idle" /\ s.backend = "redis"
       /\ UNCHANGED <<now, redis, tables, sess, schema, obs, added, popped>>
       /\ IF s.ttl = None
          THEN Return(c, f, "ok", MapSeq(Redis_deserialize_item, items),
                      redis, tables)
          ELSE Suspend(c, "get_items_refresh_ttl", f)

\* RedisSession.get_items: _refresh_ttl and the return
Redis_get_items_refresh_ttl(c) ==
    LET s == sess[c]
        db == expire(redis, Redis_key(s), s.ttl[1], now)
    IN /\ pc[c] = "get_items_refresh_ttl"
       /\ redis' = db
       /\ UNCHANGED <<now, tables, sess, schema, obs, added, popped>>
       /\ Return(c, WithCall(frame[c], "expire"), "ok",
                 MapSeq(Redis_deserialize_item, frame[c].tmp), db, tables)

\* RedisSession.add_items up to the return of rpush
Redis_add_items(c, items) ==
    LET s == sess[c]
        db == rpush(redis, Redis_key(s), MapSeq(Redis_serialize_item, items))
    IN /\ pc[c] = "idle" /\ s.backend = "redis"
       /\ UNCHANGED <<now, tables, sess, schema, obs, popped>>
       /\ IF NoItems(items)
          THEN /\ UNCHANGED <<redis, added>>
               /\ Return(c, Call(c, "add_items", items, <<>>, <<>>), "ok", None,
                         redis, tables)
          ELSE IF \E i \in 1..Len(items) : ~Serializable(items[i])
          THEN /\ UNCHANGED <<redis, added>>
               /\ Return(c, Call(c, "add_items", items, <<>>, <<>>), "TypeError",
                         None, redis, tables)
          ELSE /\ redis' = db
               /\ NoteAdded(items)
               /\ IF s.ttl = None
                  THEN Return(c, Call(c, "add_items", items, <<"rpush">>, <<>>),
                              "ok", None, db, tables)
                  ELSE Suspend(c, "add_items_refresh_ttl",
                               Call(c, "add_items", items, <<"rpush">>, <<>>))

\* RedisSession.add_items: _refresh_ttl and the return
Redis_add_items_refresh_ttl(c) ==
    LET s == sess[c]
        db == expire(redis, Redis_key(s), s.ttl[1], now)
    IN /\ pc[c] = "add_items_refresh_ttl"
       /\ redis' = db
       /\ UNCHANGED <<now, tables, sess, schema, obs, added, popped>>
       /\ Return(c, WithCall(frame[c], "expire"), "ok", None, db, tables)

\* The value pop_item returns for the reply of rpop
Redis_pop_item_result(reply) ==
    IF reply = None THEN None ELSE Some(Redis_deserialize_item(reply[1]))

\* pop_item that returns at once when rpop found nothing, without _refresh_ttl
Redis_pop_item_return_on_miss(c) ==
    LET s == sess[c]
        item == rpop_reply(redis, Redis_key(s))
        db == rpop(redis, Redis_key(s))
        f == Call(c, "pop_item", <<>>, <<"rpop">>, item)
    IN /\ pc[c] = "idle" /\ s.backend = "redis"
       /\ redis' = db
       /\ NotePopped(Redis_pop_item_result(item))
       /\ UNCHANGED <<now, tables, sess, schema, obs, added>>
       /\ IF s.ttl = None \/ item = None
          THEN Return(c, f, "ok", Redis_pop_item_result(item), db, tables)
          ELSE Suspend(c, "pop_item_refresh_ttl", f)

\* RedisSession.pop_item up to the return of rpop
Redis_pop_item(c) ==
    LET s == sess[c]
        item == rpop_reply(redis, Redis_key(s))
        db == rpop(redis, Redis_key(s))
        f == Call(c, "pop_item", <<>>, <<"rpop">>, item)
    IN /\ pc[c] = "idle" /\ s.backend = "redis"
       /\ redis' = db
       /\ NotePopped(Redis_pop_item_result(item))
       /\ UNCHANGED <<now, tables, sess, schema, obs, added>>
       /\ IF s.ttl = None
          THEN Return(c, f, "ok", Redis_pop_item_result(item), db, tables)
          ELSE Suspend(c, "pop_item_refresh_ttl", f)

\* RedisSession.pop_item: _refresh_ttl and the return
Redis_pop_item_refresh_ttl(c) ==
    LET s == sess[c]
        db == expire(redis, Redis_key(s), s.ttl[1], now)
    IN /\ pc[c] = "pop_item_refresh_ttl"
       /\ redis' = db
       /\ UNCHANGED <<now, tables, sess, schema, obs, added, popped>>
       /\ Return(c, WithCall(frame[c], "expire"), "ok",
                 Redis_pop_item_result(frame[c].tmp), db, tables)

\* RedisSession.clear_session
Redis_clear_session(c) ==
    LET s == sess[c]
        db == delete(redis, Redis_key(s))
    IN /\ pc[c] = "idle" /\ s.backend = "redis"
       /\ redis' = db
       /\ UNCHANGED <<now, tables, sess, schema, obs, added, popped>>
       /\ Return(c, Call(c, "clear_session", <<>>, <<"delete">>, <<>>), "ok",
                 None, db, tables)

\* close that deletes the key of the session
Redis_close_deletes(c) ==
    LET s == sess[c]
        db == delete(redis, Redis_key(s))
    IN /\ pc[c] = "idle" /\ s.backend = "redis"
       /\ redis' = db
       /\ UNCHANGED <<now, tables, sess, schema, obs, added, popped>>
       /\ Return(c, Call(c, "close", <<>>, <<>>, <<>>), "ok", None, db, tables)

\* RedisSession.close: pass
Redis_close(c) ==
    /\ pc[c] = "idle" /\ sess[c].backend = "redis"
    /\ UNCHANGED <<now, redis, tables, sess, schema, obs, added, popped>>
    /\ Return(c, Call(c, "close", <<>>, <<>>, <<>>), "ok", None, redis, tables)

(***************************************************************************)
(* DynamoDBSession.                                                        *)
(***************************************************************************)
\* get_items that writes the record back to renew its ttl
DynamoDB_get_items_touch(c, limit) ==
    LET s == sess[c]
        items == DynamoDB_get_raw_items(get_item(tables, s.table_name, s.session_id))
        f == Call(c, "get_items", limit, <<"get_item", "put_item">>, items)
        tbls == put_item(tables, s.table_name, DynamoDB_put_items_item(s, items, now))
    IN /\ pc[c] = "idle" /\ s.backend = "dynamodb"
       /\ tables' = tbls
       /\ UNCHANGED <<now, redis, sess, schema, obs, added, popped>>
       /\ Return(c, f, "ok",
                 IF limit # None THEN SliceLast(items, limit[1]) ELSE items,
                 redis, tbls)

\* DynamoDBSession.get_items
DynamoDB_get_items(c, limit) ==
    LET s == sess[c]
        items == DynamoDB_get_raw_items(get_item(tables, s.table_name, s.session_id))
        f == Call(c, "get_items", limit, <<"get_item">>, items)
    IN /\ pc[c] = "idle" /\ s.backend = "dynamodb"
       /\ UNCHANGED <<now, redis, tables, sess, schema, obs, added, popped>>
       /\ Return(c, f, "ok",
                 IF limit # None THEN SliceLast(items, limit[1]) ELSE items,
                 redis, tables)

\* DynamoDBSession.add_items up to the return of _get_raw_items
DynamoDB_add_items(c, items) ==
    LET s == sess[c]
        existing == DynamoDB_get_raw_items(get_item(tables, s.table_name, s.session_id))
    IN /\ pc[c] = "idle" /\ s.backend = "dynamodb"
       /\ UNCHANGED <<now, redis, tables, sess, schema, obs, popped>>
       /\ IF NoItems(items)
          THEN /\ UNCHANGED added
               /\ Return(c, Call(c, "add_items", items, <<>>, <<>>), "ok", None,
                         redis, tables)
          ELSE /\ NoteAdded(items)
               /\ Suspend(c, "add_items_put_items",
                          Call(c, "add_items", items, <<"get_item">>,
                               existing \o items))

\* DynamoDBSession.add_items: _put_items and the return
DynamoDB_add_items_put_items(c) ==
    LET s == sess[c]
        f == frame[c]
        tbls == put_item(tables, s.table_name, DynamoDB_put_items_item(s, f.tmp, now))
    IN /\ pc[c] = "add_items_put_items"
       /\ UNCHANGED <<now, redis, sess, schema, obs, added, popped>>
       /\ IF \E i \in 1..Len(f.tmp) : ~Serializable(f.tmp[i])
          THEN /\ UNCHANGED tables
               /\ Return(c, f, "TypeError", None, redis, tables)
          ELSE /\ tables' = tbls
               /\ Return(c, WithCall(f, "put_item"), "ok", None, redis, tbls)

\* pop_item that writes the sequence back even when it found no item
DynamoDB_pop_item_writes_empty(c) ==
    LET s == sess[c]
        items == DynamoDB_get_raw_items(get_item(tables, s.table_name, s.session_id))
        f == Call(c, "pop_item", <<>>, <<"get_item">>, items)
        tbls == put_item(tables, s.table_name, DynamoDB_put_items_item(s, items, now))
    IN /\ pc[c] = "idle" /\ s.backend = "dynamodb"
       /\ UNCHANGED <<now, redis, sess, schema, obs, added, popped>>
       /\ IF items = <<>>
          THEN /\ tables' = tbls
               /\ Return(c, WithCall(f, "put_item"), "ok", None, redis, tbls)
          ELSE /\ UNCHANGED tables
               /\ Suspend(c, "pop_item_put_items", f)

\* DynamoDBSession.pop_item up to the return of _get_raw_items
DynamoDB_pop_item(c) ==
    LET s == sess[c]
        items == DynamoDB_get_raw_items(get_item(tables, s.table_name, s.session_id))
        f == Call(c, "pop_item", <<>>, <<"get_item">>, items)
    IN /\ pc[c] = "idle" /\ s.backend = "dynamodb"
       /\ UNCHANGED <<now, redis, tables, sess, schema, obs, added, popped>>
       /\ IF items = <<>>
          THEN Return(c, f, "ok", None, redis, tables)
          ELSE Suspend(c, "pop_item_put_items", f)

\* pop_item with items.pop(0): the oldest item is removed and returned
DynamoDB_pop_item_put_items_head(c) ==
    LET s == sess[c]
        f == frame[c]
        item == f.tmp[1]
        items == SubSeq(f.tmp, 2, Len(f.tmp))
        tbls == put_item(tables, s.table_name, DynamoDB_put_items_item(s, items, now))
    IN /\ pc[c] = "pop_item_put_items"
       /\ tables' = tbls
       /\ NotePopped(Some(item))
       /\ UNCHANGED <<now, redis, sess, schema, obs, added>>
       /\ Return(c, WithCall(f, "put_item"), "ok", Some(item), redis, tbls)

\* pop_item that deletes the record when it removed the last item
DynamoDB_pop_item_put_or_delete(c) ==
    LET s == sess[c]
        f == frame[c]
        item == f.tmp[Len(f.tmp)]
        items == SubSeq(f.tmp, 1, Len(f.tmp) - 1)
        tbls == IF items = <<>>
                THEN delete_item(tables, s.table_name, s.session_id)
                ELSE put_item(tables, s.table_name,
                              DynamoDB_put_items_item(s, items, now))
    IN /\ pc[c] = "pop_item_put_items"
       /\ tables' = tbls
       /\ NotePopped(Some(item))
       /\ UNCHANGED <<now, redis, sess, schema, obs, added>>
       /\ Return(c, WithCall(f, "put_item"), "ok", Some(item), redis, tbls)

\* DynamoDBSession.pop_item: items.pop(), _put_items and the return
DynamoDB_pop_item_put_items(c) ==
    LET s == sess[c]
        f == frame[c]
        item == f.tmp[Len(f.tmp)]
        items == SubSeq(f.tmp, 1, Len(f.tmp) - 1)
        tbls == put_item(tables, s.table_name, DynamoDB_put_items_item(s, items, now))
    IN /\ pc[c] = "pop_item_put_items"
       /\ tables' = tbls
       /\ NotePopped(Some(item))
       /\ UNCHANGED <<now, redis, sess, schema, obs, added>>
       /\ Return(c, WithCall(f, "put_item"), "ok", Some(item), redis, tbls)

\* DynamoDBSession.clear_session
DynamoDB_clear_session(c) ==
    LET s == sess[c]
        tbls == delete_item(tables, s.table_name, s.session_id)
    IN /\ pc[c] = "idle" /\ s.backend = "dynamodb"
       /\ tables' = tbls
       /\ UNCHANGED <<now, redis, sess, schema, obs, added, popped>>
       /\ Return(c, Call(c, "clear_session", <<>>, <<"delete_item">>, <<>>), "ok",
                 None, redis, tbls)

\* DynamoDBSession.close: pass
DynamoDB_close(c) ==
    /\ pc[c] = "idle" /\ sess[c].backend = "dynamodb"
    /\ UNCHANGED <<now, redis, tables, sess, schema, obs, added, popped>>
    /\ Return(c, Call(c, "close", <<>>, <<>>, <<>>), "ok", None, redis, tables)

(***************************************************************************)
(* Session objects and the inputs of the calls.                            *)
(***************************************************************************)
\* RedisSession.__init__ / DynamoDBSession.__init__
Session(backend, session_id, key_prefix, ttl) ==
    [backend |-> backend, session_id |-> session_id, key_prefix |-> key_prefix,
     table_name |-> "test_table", ttl |-> ttl]

SeqsUpTo(S, n) == UNION {[1..k -> S] : k \in 0..n}

\* The items a caller passes: a dict and an object with model_dump
ItemsOf(c) == {DictItem(c, 1), ModelItem(c, 2)}
Batches(c) == SeqsUpTo(ItemsOf(c), MaxBatch)
Limits == {None} \cup {Some(k) : k \in -2..(MaxLen + 1)}

\* The state shared by every specification's initial states
InitStores ==
    /\ now = 0
    /\ redis = EmptyMap
    /\ tables = [t \in TableNames |-> EmptyMap]
    /\ schema = [t \in TableNames |-> TableDescription("ACTIVE", TRUE)]
    /\ pc = [c \in Callers |-> "idle"]
    /\ frame = [c \in Callers |-> IdleFrame]
    /\ hist = [c \in Callers |-> <<>>]
    /\ added = {}
    /\ popped = EmptyBag

(***************************************************************************)
(* Spec: one caller uses one session, call after call, no TTL configured.  *)
(***************************************************************************)
Init ==
    /\ InitStores
    /\ obs = [keep |-> 2, track |-> FALSE]
    /\ \E b \in Backends :
         sess = [c \in Callers |-> Session(b, "a", default_key_prefix, None)]

Fits(c, items) == Len(StoredItems(sess[c])) + Len(items) <= MaxLen

Next ==
    \/ \E limit \in Limits : Redis_get_items("c1", limit)
    \/ \E items \in Batches("c1") :
         Fits("c1", items) /\ Redis_add_items("c1", items)
    \/ Redis_pop_item("c1")
    \/ Redis_clear_session("c1")
    \/ \E limit \in Limits : DynamoDB_get_items("c1", limit)
    \/ \E items \in Batches("c1") :
         Fits("c1", items) /\ DynamoDB_add_items("c1", items)
    \/ DynamoDB_add_items_put_items("c1")
    \/ DynamoDB_pop_item("c1")
    \/ DynamoDB_pop_item_put_items("c1")
    \/ DynamoDB_clear_session("c1")
    \/ Redis_close("c1")
    \/ DynamoDB_close("c1")

Spec == Init /\ [][Next]_vars

(***************************************************************************)
(* SpecAppend: the same caller, with the last three calls remembered and   *)
(* get_items called without a limit.                                       *)
(***************************************************************************)
InitAppend ==
    /\ InitStores
    /\ obs = [keep |-> 3, track |-> FALSE]
    /\ \E b \in Backends :
         sess = [c \in Callers |-> Session(b, "a", default_key_prefix, None)]

NextAppend ==
    \/ Redis_get_items("c1", None)
    \/ \E items \in Batches("c1") :
         Fits("c1", items) /\ Redis_add_items("c1", items)
    \/ Redis_pop_item("c1")
    \/ Redis_clear_session("c1")
    \/ DynamoDB_get_items("c1", None)
    \/ \E items \in Batches("c1") :
         Fits("c1", items) /\ DynamoDB_add_items("c1", items)
    \/ DynamoDB_add_items_put_items("c1")
    \/ DynamoDB_pop_item("c1")
    \/ DynamoDB_pop_item_put_items("c1")
    \/ DynamoDB_clear_session("c1")

SpecAppend == InitAppend /\ [][NextAppend]_vars

(***************************************************************************)
(* Reading the history.                                                    *)
(***************************************************************************)
Recs(c) == {hist[c][i] : i \in 1..Len(hist[c])}
PreItems(c, r) == EntryItems(sess[c], r.pre)
PostItems(c, r) == EntryItems(sess[c], r.post)
Min(a, b) == IF a <= b THEN a ELSE b
\* the last m elements of s, oldest first
Tail_(s, m) == [i \in 1..m |-> s[Len(s) - m + i]]
\* s without its last element
Front(s) == [i \in 1..(Len(s) - 1) |-> s[i]]
Json(items) == MapSeq(JsonForm, items)

(***************************************************************************)
(* C1. After add_items(A) and then add_items(B) on a session that stored   *)
(* S, get_items() returns S, then the items of A, then the items of B, in  *)
(* input order (items in their JSON form), in both backends.               *)
(***************************************************************************)
C1_AppendOrder ==
    \A c \in Callers :
        (/\ Len(hist[c]) = 3
         /\ hist[c][1].op = "add_items" /\ hist[c][2].op = "add_items"
         /\ hist[c][3].op = "get_items" /\ hist[c][3].arg = None)
        => /\ \A i \in 1..3 : hist[c][i].out = "ok"
           /\ hist[c][3].val = PreItems(c, hist[c][1])
                                 \o Json(hist[c][1].arg) \o Json(hist[c][2].arg)

\* A holds two different items and B one more
C1_Witness ==
    /\ sess["c1"].backend = "dynamodb"
    /\ Len(hist["c1"]) = 3
    /\ hist["c1"][1].op = "add_items" /\ hist["c1"][2].op = "add_items"
    /\ hist["c1"][3].op = "get_items" /\ hist["c1"][3].arg = None
    /\ Len(hist["c1"][1].arg) = 2
    /\ hist["c1"][1].arg[1] # hist["c1"][1].arg[2]
    /\ Len(hist["c1"][2].arg) = 1

(***************************************************************************)
(* C2. get_items(limit=k) with k >= 1 returns exactly the last min(k, N)   *)
(* of the N stored items, oldest first, in both backends; k > N returns    *)
(* all N items without error.                                              *)
(***************************************************************************)
C2_LimitSuffix ==
    \A c \in Callers : \A r \in Recs(c) :
        (r.op = "get_items" /\ r.arg # None /\ r.arg[1] >= 1)
        => /\ r.out = "ok"
           /\ r.val = Tail_(PreItems(c, r), Min(r.arg[1], Len(PreItems(c, r))))

\* a limit below N followed by a limit above N
C2_Witness ==
    /\ Len(hist["c1"]) = 2
    /\ \A i \in 1..2 : hist["c1"][i].op = "get_items" /\ hist["c1"][i].arg # None
    /\ Len(PreItems("c1", hist["c1"][1])) = 3
    /\ hist["c1"][1].arg[1] = 2
    /\ hist["c1"][2].arg[1] > 3

(***************************************************************************)
(* C3. get_items(limit=0) returns an empty sequence whatever is stored,    *)
(* in both backends.                                                       *)
(***************************************************************************)
C3_LimitZeroEmpty ==
    \A c \in Callers : \A r \in Recs(c) :
        (r.op = "get_items" /\ r.arg = Some(0)) => r.val = <<>>

(***************************************************************************)
(* C4. pop_item on N >= 1 stored items returns the last one and leaves the *)
(* first N-1 in order; on N = 0 (an empty or a missing session) it returns *)
(* None without raising and the session still holds no item.               *)
(***************************************************************************)
C4_PopLast ==
    \A c \in Callers : \A r \in Recs(c) :
        r.op = "pop_item"
        => LET S == PreItems(c, r)
           IN /\ r.out = "ok"
              /\ S # <<>> => /\ r.val = Some(S[Len(S)])
                             /\ PostItems(c, r) = Front(S)
              /\ S = <<>> => /\ r.val = None
                             /\ PostItems(c, r) = <<>>

\* a pop of the only item, then a pop of the session left empty
C4_Witness ==
    /\ Len(hist["c1"]) = 2
    /\ hist["c1"][1].op = "pop_item" /\ hist["c1"][2].op = "pop_item"
    /\ Len(PreItems("c1", hist["c1"][1])) = 1
    /\ hist["c1"][1].val # None
    /\ hist["c1"][2].val = None

(***************************************************************************)
(* C5. clear_session succeeds on a non-empty, an empty and a missing       *)
(* session; the get_items that follows it returns an empty sequence; a     *)
(* second clear_session in a row changes nothing.                          *)
(***************************************************************************)
C5_ClearThenEmpty ==
    \A c \in Callers :
        /\ \A r \in Recs(c) :
             r.op = "clear_session" => r.out = "ok" /\ r.post = None
        /\ (Len(hist[c]) = 2 /\ hist[c][1].op = "clear_session")
           => /\ hist[c][2].op = "get_items"
                 => hist[c][2].out = "ok" /\ hist[c][2].val = <<>>
              /\ hist[c][2].op = "clear_session"
                 => hist[c][2].out = "ok" /\ hist[c][2].post = hist[c][1].post

\* a clear of a non-empty session followed by get_items()
C5_Witness ==
    /\ Len(hist["c1"]) = 2
    /\ hist["c1"][1].op = "clear_session"
    /\ Len(PreItems("c1", hist["c1"][1])) >= 2
    /\ hist["c1"][2].op = "get_items" /\ hist["c1"][2].arg = None

(***************************************************************************)
(* SpecTTL: one caller, a session constructed with or without a TTL, and   *)
(* the clock.                                                              *)
(***************************************************************************)
\* int(s) for the decimal string of a timestamp
ParseInt(str) == CHOOSE n \in 0..(MaxTime + TTL + 1) : ToString(n) = str

\* When the raw entry e expires: None, or the absolute time
ExpiryOf(s, e) ==
    IF e = None THEN None
    ELSE IF s.backend = "redis" THEN e[1].expire_at
    ELSE IF "ttl" \in DOMAIN e[1] THEN Some(ParseInt(e[1].ttl.N)) ELSE None

\* A second passes; the Redis server drops the keys whose time has come
Tick ==
    /\ now < MaxTime
    /\ now' = now + 1
    /\ redis' = Unexpired(redis, now + 1)
    /\ UNCHANGED <<tables, sess, pc, frame, hist, schema, obs, added, popped>>

\* DynamoDB's expiration deletes an item whose ttl attribute has passed
DynamoDB_ttl_delete(t, sid) ==
    /\ t \in DOMAIN schema /\ schema[t].TimeToLive = [Enabled |-> TRUE, AttributeName |-> "ttl"]
    /\ t \in DOMAIN tables /\ sid \in DOMAIN tables[t]
    /\ "ttl" \in DOMAIN tables[t][sid]
    /\ ParseInt(tables[t][sid].ttl.N) <= now
    /\ tables' = delete_item(tables, t, sid)
    /\ UNCHANGED <<now, redis, sess, pc, frame, hist, schema, obs, added, popped>>

\* The batches passed under a TTL: none, one and two items
BatchesTTL(c) == {<<>>, <<DictItem(c, 1)>>, <<DictItem(c, 1), ModelItem(c, 2)>>}

\* The limits passed under a TTL: none, below zero, zero, one
LimitsTTL == {None, Some(-1), Some(0), Some(1)}

InitTTL ==
    /\ InitStores
    /\ obs = [keep |-> 1, track |-> FALSE]
    /\ \E b \in Backends, ttl \in {None, Some(TTL)} :
         sess = [c \in Callers |-> Session(b, "a", default_key_prefix, ttl)]

NextTTL ==
    \/ \E limit \in LimitsTTL : Redis_get_items("c1", limit)
    \/ Redis_get_items_refresh_ttl("c1")
    \/ \E items \in BatchesTTL("c1") :
         Fits("c1", items) /\ Redis_add_items("c1", items)
    \/ Redis_add_items_refresh_ttl("c1")
    \/ Redis_pop_item("c1")
    \/ Redis_pop_item_refresh_ttl("c1")
    \/ Redis_clear_session("c1")
    \/ \E limit \in LimitsTTL : DynamoDB_get_items("c1", limit)
    \/ \E items \in BatchesTTL("c1") :
         Fits("c1", items) /\ DynamoDB_add_items("c1", items)
    \/ DynamoDB_add_items_put_items("c1")
    \/ DynamoDB_pop_item("c1")
    \/ DynamoDB_pop_item_put_items("c1")
    \/ DynamoDB_clear_session("c1")
    \/ Tick
    \/ \E t \in TableNames, sid \in SessionIds : DynamoDB_ttl_delete(t, sid)

SpecTTL == InitTTL /\ [][NextTTL]_vars

(***************************************************************************)
(* C9. add_items([]) issues no backend call (no read, no write, no expire) *)
(* and leaves the stored sequence, the existence of the key or record and  *)
(* its expiration as they were, in both backends.                          *)
(***************************************************************************)
C9_EmptyAddNoOp ==
    \A c \in Callers : \A r \in Recs(c) :
        (r.op = "add_items" /\ r.arg = <<>>)
        => /\ r.out = "ok"
           /\ r.calls = <<>>
           /\ r.post = r.pre
           /\ r.t1 = r.t0

\* add_items([]) on a stored session that carries an expiration
C9_Witness ==
    \E r \in Recs("c1") :
        /\ r.op = "add_items" /\ r.arg = <<>>
        /\ r.pre # None
        /\ ExpiryOf(sess["c1"], r.pre) # None
        /\ ExpiryOf(sess["c1"], r.pre)[1] < r.t0 + TTL

(***************************************************************************)
(* C10. With a TTL configured, every get_items, add_items and pop_item     *)
(* pushes the expiry of the session to at least the time of the call plus  *)
(* the TTL, in the list store and in the document store alike.             *)
(***************************************************************************)
Accesses(r) ==
    /\ r.out = "ok"
    /\ r.op \in {"get_items", "pop_item"} \/ (r.op = "add_items" /\ r.arg # <<>>)

Writes(r) == \E i \in 1..Len(r.calls) : r.calls[i] = "put_item"

AddedOk(r) == r.op = "add_items" /\ r.arg # <<>> /\ r.out = "ok"

\* What C11 says of a session without a TTL, and of the document store
C11_Common(s, r) ==
    /\ s.ttl = None
       => /\ r.post # None
          /\ ExpiryOf(s, r.post) = None
          /\ s.backend = "dynamodb" => "ttl" \notin DOMAIN r.post[1]
    /\ (s.ttl # None /\ s.backend = "dynamodb")
       => /\ r.post # None
          /\ "ttl" \in DOMAIN r.post[1]
          /\ r.post[1].ttl.N = ToString(r.t1 + s.ttl[1])
          /\ r.post[1].updated_at.N = ToString(r.t1)

C11_AddLeavesExpiry ==
    \A c \in Callers : \A r \in Recs(c) :
      LET s == sess[c] IN
      AddedOk(r) =>
        /\ C11_Common(s, r)
        /\ (s.ttl # None /\ s.backend = "redis")
           => /\ r.post # None
              /\ ExpiryOf(s, r.post) # None
              /\ ExpiryOf(s, r.post)[1] - r.t1 \in 1..s.ttl[1]

(***************************************************************************)
(* SpecIso: two callers, each with its own session object on the shared    *)
(* client, with different session_id values; their calls interleave.       *)
(***************************************************************************)
\* The batches a caller passes here: one and two items of its own
BatchesIso(c) == {<<DictItem(c, 1)>>, <<DictItem(c, 1), ModelItem(c, 2)>>}

InitIso ==
    /\ InitStores
    /\ obs = [keep |-> 1, track |-> FALSE]
    /\ \E b \in Backends, id1 \in {"a", "a:b"}, p2 \in KeyPrefixes :
         sess = [c \in Callers |->
                   IF c = "c1" THEN Session(b, id1, default_key_prefix, None)
                   ELSE Session(b, "b", p2, None)]

NextIso ==
    \E c \in Callers :
        \/ Redis_get_items(c, None)
        \/ \E items \in BatchesIso(c) : Fits(c, items) /\ Redis_add_items(c, items)
        \/ Redis_pop_item(c)
        \/ Redis_clear_session(c)
        \/ DynamoDB_get_items(c, None)
        \/ \E items \in BatchesIso(c) :
             Fits(c, items) /\ DynamoDB_add_items(c, items)
        \/ DynamoDB_add_items_put_items(c)
        \/ DynamoDB_pop_item(c)
        \/ DynamoDB_pop_item_put_items(c)
        \/ DynamoDB_clear_session(c)

SpecIso == InitIso /\ [][NextIso]_vars

\* Every item c read or popped, and every item stored for c, was added by c;
\* nothing but c's own calls changes what is stored for c.
Isolated(c) ==
    /\ \A r \in Recs(c) :
         r.op \in {"get_items", "pop_item"}
         => \A i \in 1..Len(r.val) : r.val[i].owner = c
    /\ \A i \in 1..Len(StoredItems(sess[c])) : StoredItems(sess[c])[i].owner = c
    /\ hist[c] # <<>>
       => StoredEntry(sess[c], redis, tables) = hist[c][Len(hist[c])].post
    /\ hist[c] = <<>> => StoredEntry(sess[c], redis, tables) = None

(***************************************************************************)
(* C6. Two session objects on one client (and one table) with different    *)
(* session_id values never observe each other's items, and the calls on    *)
(* one leave what is stored for the other unchanged, for any interleaving. *)
(***************************************************************************)
C6_DistinctIdsIsolated ==
    sess["c1"].session_id # sess["c2"].session_id
    => \A c \in Callers : Isolated(c)

(***************************************************************************)
(* C6, amended.  The same, for two session objects that also share their   *)
(* namespace: the key_prefix in the list store, the table in the document  *)
(* store.                                                                  *)
(***************************************************************************)
SameNamespace(s1, s2) ==
    /\ s1.backend = s2.backend
    /\ s1.backend = "redis" => s1.key_prefix = s2.key_prefix
    /\ s1.backend = "dynamodb" => s1.table_name = s2.table_name

C6_DistinctIdsSameNamespaceIsolated ==
    (/\ sess["c1"].session_id # sess["c2"].session_id
     /\ SameNamespace(sess["c1"], sess["c2"]))
    => \A c \in Callers : Isolated(c)

\* both sessions hold items; c1 has just read its own, c2 has just popped
C6_Witness ==
    /\ sess["c1"].backend = "redis"
    /\ sess["c1"].session_id # sess["c2"].session_id
    /\ SameNamespace(sess["c1"], sess["c2"])
    /\ hist["c1"] # <<>> /\ hist["c2"] # <<>>
    /\ hist["c1"][1].op = "get_items" /\ Len(hist["c1"][1].val) = 2
    /\ hist["c2"][1].op = "pop_item" /\ hist["c2"][1].val # None
    /\ StoredItems(sess["c2"]) # <<>>

(***************************************************************************)
(* SpecRace: two callers share one session_id; their add_items and         *)
(* pop_item calls interleave (no clear_session, no TTL).  Every item       *)
(* passed to add_items is new, so that each can be followed.               *)
(***************************************************************************)
Range(s) == {s[i] : i \in 1..Len(s)}
AddedItems == UNION {Range(b) : b \in added}

\* A batch of len items never passed before: the caller numbers its items
FreshBatch(c, len) ==
    LET n == Cardinality({x \in AddedItems : x.owner = c})
    IN [i \in 1..len |-> IF i = 1 THEN DictItem(c, n + i) ELSE ModelItem(c, n + i)]

InitRace ==
    /\ InitStores
    /\ obs = [keep |-> 1, track |-> TRUE]
    /\ \E b \in Backends :
         sess = [c \in Callers |-> Session(b, "a", default_key_prefix, None)]

MayPop == BagCardinality(popped) < MaxPopped
MayAdd(len) == Cardinality(AddedItems) + len <= MaxAdded

NextRace ==
    \E c \in Callers :
        \/ \E len \in 1..MaxBatch :
             MayAdd(len) /\ Redis_add_items(c, FreshBatch(c, len))
        \/ MayPop /\ Redis_pop_item(c)
        \/ \E len \in 1..MaxBatch :
             MayAdd(len) /\ DynamoDB_add_items(c, FreshBatch(c, len))
        \/ DynamoDB_add_items_put_items(c)
        \/ MayPop /\ DynamoDB_pop_item(c)
        \/ DynamoDB_pop_item_put_items(c)

SpecRace == InitRace /\ [][NextRace]_vars

AllReturned == \A c \in Callers : pc[c] = "idle"
Count(x, s) == Cardinality({i \in 1..Len(s) : s[i] = x})
PoppedCount(x) == IF x \in BagToSet(popped) THEN CopiesIn(x, popped) ELSE 0
Stored == StoredItems(sess["c1"])

(***************************************************************************)
(* C7. In the document store add_items and pop_item are one get_item       *)
(* followed by one unconditional put_item of the whole sequence: the       *)
(* record written is what the call read plus its batch (less the popped    *)
(* item), whatever was written in between.  Two concurrent add_items can   *)
(* so both return while the items of one are missing from the record.      *)
(***************************************************************************)
C7_ReadThenOverwrite ==
    \A c \in Callers : \A r \in Recs(c) :
        (sess[c].backend = "dynamodb" /\ r.out = "ok")
        => /\ (r.op = "add_items" /\ r.arg # <<>>)
              => /\ r.calls = <<"get_item", "put_item">>
                 /\ PostItems(c, r) = PreItems(c, r) \o Json(r.arg)
           /\ (r.op = "pop_item" /\ r.val # None)
              => /\ r.calls = <<"get_item", "put_item">>
                 /\ PostItems(c, r) = Front(PreItems(c, r))

\* the lost update: both callers' add_items have returned, nothing was ever
\* popped, and no item of c1's batch is stored
C7_Witness ==
    /\ sess["c1"].backend = "dynamodb"
    /\ AllReturned
    /\ popped = EmptyBag
    /\ \A c \in Callers :
         /\ hist[c] # <<>>
         /\ hist[c][1].op = "add_items" /\ hist[c][1].out = "ok"
    /\ hist["c1"][1].pre = hist["c2"][1].pre
    /\ Stored # <<>>
    /\ \A x \in Range(Json(hist["c1"][1].arg)) : Count(x, Stored) = 0

(***************************************************************************)
(* C8. In the list store concurrent add_items and pop_item lose nothing:   *)
(* once all calls have returned, each item passed to add_items is stored   *)
(* exactly once or was returned by exactly one pop_item, and the stored    *)
(* items of one batch are in their input order.                            *)
(***************************************************************************)
C8_NoLostUpdate ==
    (sess["c1"].backend = "redis" /\ AllReturned)
    => /\ \A x \in AddedItems : Count(x, Stored) + PoppedCount(x) = 1
       /\ \A x \in Range(Stored) : x \in AddedItems
       /\ \A b \in added : \A i, j \in 1..Len(b) :
            i < j => \A m, n \in 1..Len(Stored) :
                       (Stored[m] = b[i] /\ Stored[n] = b[j]) => m < n

\* both callers added, a pop took the item added last, items of both remain
C8_Witness ==
    /\ sess["c1"].backend = "redis"
    /\ AllReturned
    /\ Cardinality(added) = 2
    /\ BagCardinality(popped) = 1
    /\ \A c \in Callers : \E x \in Range(Stored) : x.owner = c
(***************************************************************************)
(* SpecFail: one caller of a session with a TTL whose backend may fail any *)
(* command of add_items.  A command that raises was either run by the      *)
(* server before the reply was lost, or not run at all.  The clock stands  *)
(* still.                                                                  *)
(***************************************************************************)
\* One rpush per item, raising after the first
FailedPush_after_first(db, key, values, applied) ==
    IF applied THEN rpush(db, key, SubSeq(values, 1, 1)) ELSE db

\* The keyspace after an rpush that raised: one command, run whole or not
FailedPush(db, key, values, applied) ==
    IF applied THEN rpush(db, key, values) ELSE db

\* RedisSession.add_items: rpush raises
Redis_add_items_rpush_raises(c, items, applied) ==
    LET s == sess[c]
        db == FailedPush(redis, Redis_key(s), MapSeq(Redis_serialize_item, items),
                         applied)
    IN /\ pc[c] = "idle" /\ s.backend = "redis"
       /\ ~NoItems(items)
       /\ \A i \in 1..Len(items) : Serializable(items[i])
       /\ redis' = db
       /\ UNCHANGED <<now, tables, sess, schema, obs, added, popped>>
       /\ Return(c, Call(c, "add_items", items, <<"rpush">>, <<>>),
                 "BackendError", None, db, tables)

\* RedisSession.add_items: expire raises
Redis_add_items_expire_raises(c, applied) ==
    LET s == sess[c]
        db == IF applied THEN expire(redis, Redis_key(s), s.ttl[1], now) ELSE redis
    IN /\ pc[c] = "add_items_refresh_ttl"
       /\ redis' = db
       /\ UNCHANGED <<now, tables, sess, schema, obs, added, popped>>
       /\ Return(c, WithCall(frame[c], "expire"), "BackendError", None, db, tables)

\* DynamoDBSession.add_items: get_item raises
DynamoDB_add_items_get_item_raises(c, items) ==
    /\ pc[c] = "idle" /\ sess[c].backend = "dynamodb"
    /\ ~NoItems(items)
    /\ UNCHANGED <<now, redis, tables, sess, schema, obs, added, popped>>
    /\ Return(c, Call(c, "add_items", items, <<"get_item">>, <<>>),
              "BackendError", None, redis, tables)

\* DynamoDBSession.add_items: put_item raises
DynamoDB_add_items_put_item_raises(c, applied) ==
    LET s == sess[c]
        f == frame[c]
        tbls == IF applied
                THEN put_item(tables, s.table_name,
                              DynamoDB_put_items_item(s, f.tmp, now))
                ELSE tables
    IN /\ pc[c] = "add_items_put_items"
       /\ \A i \in 1..Len(f.tmp) : Serializable(f.tmp[i])
       /\ tables' = tbls
       /\ UNCHANGED <<now, redis, sess, schema, obs, added, popped>>
       /\ Return(c, WithCall(f, "put_item"), "BackendError", None, redis, tbls)

\* The batches passed here: serializable ones, and ones holding a plain object
BatchesFail(c) ==
    {<<DictItem(c, 1)>>, <<DictItem(c, 1), ModelItem(c, 2)>>,
     <<ObjectItem(c, 3)>>, <<DictItem(c, 1), ObjectItem(c, 3)>>}

InitFail ==
    /\ InitStores
    /\ obs = [keep |-> 1, track |-> FALSE]
    /\ \E b \in Backends :
         sess = [c \in Callers |-> Session(b, "a", default_key_prefix, Some(TTL))]

NextFail ==
    \/ Redis_get_items("c1", None)
    \/ Redis_get_items_refresh_ttl("c1")
    \/ \E items \in BatchesFail("c1") :
         Fits("c1", items) /\ Redis_add_items("c1", items)
    \/ Redis_add_items_refresh_ttl("c1")
    \/ \E items \in BatchesFail("c1"), applied \in BOOLEAN :
         Fits("c1", items) /\ Redis_add_items_rpush_raises("c1", items, applied)
    \/ \E applied \in BOOLEAN : Redis_add_items_expire_raises("c1", applied)
    \/ Redis_pop_item("c1")
    \/ Redis_pop_item_refresh_ttl("c1")
    \/ Redis_clear_session("c1")
    \/ DynamoDB_get_items("c1", None)
    \/ \E items \in BatchesFail("c1") :
         Fits("c1", items) /\ DynamoDB_add_items("c1", items)
    \/ DynamoDB_add_items_put_items("c1")
    \/ \E items \in BatchesFail("c1") :
         Fits("c1", items) /\ DynamoDB_add_items_get_item_raises("c1", items)
    \/ \E applied \in BOOLEAN : DynamoDB_add_items_put_item_raises("c1", applied)
    \/ DynamoDB_pop_item("c1")
    \/ DynamoDB_pop_item_put_items("c1")
    \/ DynamoDB_clear_session("c1")

SpecFail == InitFail /\ [][NextFail]_vars

(***************************************************************************)
(* C12. A document-store add_items whose get_item or put_item fails leaves *)
(* the stored sequence as it was before the call or as it was followed by  *)
(* the whole batch, never followed by a part of the batch.                 *)
(***************************************************************************)
C12_FailedAddAllOrNothing ==
    \A c \in Callers : \A r \in Recs(c) :
        (sess[c].backend = "dynamodb" /\ r.op = "add_items"
         /\ r.out = "BackendError")
        => /\ PostItems(c, r) = PreItems(c, r)
              \/ PostItems(c, r) = PreItems(c, r) \o Json(r.arg)
           /\ r.calls = <<"get_item">> => r.post = r.pre

\* put_item raised after the server had stored a batch of two behind one item
C12_Witness ==
    \E r \in Recs("c1") :
        /\ sess["c1"].backend = "dynamodb"
        /\ r.op = "add_items" /\ r.out = "BackendError" /\ Len(r.arg) = 2
        /\ r.calls = <<"get_item", "put_item">>
        /\ PreItems("c1", r) # <<>>
        /\ PostItems("c1", r) = PreItems("c1", r) \o Json(r.arg)

(***************************************************************************)
(* C13. In both backends add_items of a batch holding an item that is      *)
(* neither a dict nor an object with model_dump raises TypeError before    *)
(* any call on the backend client, read or write, and writes no item.      *)
(***************************************************************************)
Unserializable(items) == \E i \in 1..Len(items) : ~Serializable(items[i])

C13_TypeErrorBeforeAnyCall ==
    \A c \in Callers : \A r \in Recs(c) :
        (r.op = "add_items" /\ Unserializable(r.arg))
        => /\ r.out = "TypeError"
           /\ r.calls = <<>>
           /\ r.post = r.pre

(***************************************************************************)
(* C14. get_items, with or without a limit, never changes stored data: no  *)
(* step of a get_items call changes the item list of any key or anything   *)
(* in any table; the document-store call is one get_item and leaves the    *)
(* whole record as it was.                                                 *)
(***************************************************************************)
\* The step taken is a step of a get_items call of c
GetItemsStep(c) ==
    \/ pc[c] = "get_items_refresh_ttl" /\ pc'[c] = "idle"
    \/ /\ pc[c] = "idle"
       /\ \/ pc'[c] = "get_items_refresh_ttl"
          \/ /\ pc'[c] = "idle" /\ hist'[c] # hist[c]
             /\ hist'[c][Len(hist'[c])].op = "get_items"

ItemLists(db) == [k \in DOMAIN db |-> db[k].list]

C14_GetItemsReadsOnly ==
    /\ [](\A c \in Callers : \A r \in Recs(c) :
            r.op = "get_items"
            => /\ r.out = "ok"
               /\ r.calls \in {<<"lrange">>, <<"lrange", "expire">>, <<"get_item">>}
               /\ sess[c].backend = "dynamodb" => r.post = r.pre)
    /\ [][\A c \in Callers :
            GetItemsStep(c) => /\ ItemLists(redis') = ItemLists(redis)
                               /\ tables' = tables]_vars

\* a list-store get_items(limit=1) that moved the expiry of a key of two items
C14_Witness ==
    \E r \in Recs("c1") :
        /\ sess["c1"].backend = "redis"
        /\ r.op = "get_items" /\ r.arg = Some(1)
        /\ Len(PreItems("c1", r)) = 2
        /\ r.post # r.pre
        /\ PostItems("c1", r) = PreItems("c1", r)

(***************************************************************************)
(* C15. For one caller using one session call after call, starting with    *)
(* no stored data, every call of add_items, get_items (limit None or any   *)
(* integer), pop_item and clear_session returns, in the list store and in  *)
(* the document store alike, what the reference list returns: add_items    *)
(* appends at the tail, get_items(None) reads the list, get_items(k) reads *)
(* its last min(k, N) items, pop_item removes the tail, clear_session      *)
(* empties the list.                                                       *)
(***************************************************************************)
\* get_items on the reference list (no value is laid down for k < 0)
RefGetItems(S, limit, val) ==
    /\ limit = None => val = S
    /\ (limit # None /\ limit[1] >= 0) => val = Tail_(S, Min(limit[1], Len(S)))

\* The call recorded as r did to the list S what the reference list does
RefStep(S, r, T) ==
    /\ r.out = "ok"
    /\ r.op = "add_items" => r.val = None /\ T = S \o Json(r.arg)
    /\ r.op = "get_items" => RefGetItems(S, r.arg, r.val) /\ T = S
    /\ r.op = "pop_item"
       => IF S = <<>> THEN r.val = None /\ T = <<>>
          ELSE r.val = Some(S[Len(S)]) /\ T = Front(S)
    /\ r.op = "clear_session" => r.val = None /\ T = <<>>

C15_SameAsReferenceList ==
    \A c \in Callers : \A i \in 1..Len(hist[c]) :
        /\ RefStep(PreItems(c, hist[c][i]), hist[c][i], PostItems(c, hist[c][i]))
        /\ i > 1 => hist[c][i].pre = hist[c][i - 1].post

(***************************************************************************)
(* C16. close() is a no-op in both backends: it makes no call on the       *)
(* client, changes nothing in the key space or in any table (the data of   *)
(* this session and of every other session on the client), and the call    *)
(* that follows it finds the data as close() found it and works as usual.  *)
(***************************************************************************)
\* The step taken is a close() of c
CloseStep(c) ==
    /\ pc[c] = "idle" /\ pc'[c] = "idle" /\ hist'[c] # hist[c]
    /\ hist'[c][Len(hist'[c])].op = "close"

C16_CloseNoOp ==
    /\ [](\A c \in Callers : \A i \in 1..Len(hist[c]) :
            hist[c][i].op = "close"
            => /\ hist[c][i].out = "ok" /\ hist[c][i].val = None
               /\ hist[c][i].calls = <<>>
               /\ hist[c][i].post = hist[c][i].pre
               /\ i < Len(hist[c])
                  => /\ hist[c][i + 1].out = "ok"
                     /\ hist[c][i + 1].pre = hist[c][i].pre
                     /\ (hist[c][i + 1].op = "get_items"
                         => hist[c][i + 1].arg \in {None} \cup {Some(k) : k \in 1..(MaxLen + 1)})
                        => RefStep(PreItems(c, hist[c][i]), hist[c][i + 1],
                                   PostItems(c, hist[c][i + 1])))
    /\ [][\A c \in Callers : CloseStep(c) => UNCHANGED <<now, redis, tables, sess>>]_vars

\* pop_item right after close() returns the last of two stored items
C16_Witness ==
    /\ Len(hist["c1"]) = 2
    /\ hist["c1"][1].op = "close" /\ hist["c1"][2].op = "pop_item"
    /\ Len(PreItems("c1", hist["c1"][1])) = 2
    /\ hist["c1"][2].val = Some(PreItems("c1", hist["c1"][1])[2])

(***************************************************************************)
(* SpecNoAdd: one caller of a session, with or without a TTL, that starts  *)
(* with no stored data and never passes an item to add_items; the clock    *)
(* runs.                                                                   *)
(***************************************************************************)
InitNoAdd ==
    /\ InitStores
    /\ obs = [keep |-> 1, track |-> FALSE]
    /\ \E b \in Backends, ttl \in {None, Some(TTL)} :
         sess = [c \in Callers |-> Session(b, "a", default_key_prefix, ttl)]

NextNoAdd ==
    \/ \E limit \in LimitsTTL : Redis_get_items("c1", limit)
    \/ Redis_get_items_refresh_ttl("c1")
    \/ Redis_add_items("c1", <<>>)
    \/ Redis_pop_item("c1")
    \/ Redis_pop_item_refresh_ttl("c1")
    \/ Redis_clear_session("c1")
    \/ Redis_close("c1")
    \/ \E limit \in LimitsTTL : DynamoDB_get_items("c1", limit)
    \/ DynamoDB_add_items("c1", <<>>)
    \/ DynamoDB_pop_item("c1")
    \/ DynamoDB_clear_session("c1")
    \/ DynamoDB_close("c1")
    \/ Tick

SpecNoAdd == InitNoAdd /\ [][NextNoAdd]_vars

(***************************************************************************)
(* C17. Starting from a session with no stored record or key, no sequence  *)
(* of get_items, pop_item, clear_session, close and add_items([]) calls,   *)
(* with or without a TTL, creates a key or a record in either backend.     *)
(***************************************************************************)
C17_NothingCreatedWithoutItems ==
    /\ redis = EmptyMap
    /\ \A t \in DOMAIN tables : tables[t] = EmptyMap
    /\ \A c \in Callers :
         /\ pc[c] \notin {"add_items_put_items", "pop_item_put_items"}
         /\ \A r \in Recs(c) : r.out = "ok" /\ r.post = None

\* under a TTL, a pop_item has run rpop and, a second later, expire
C17_Witness ==
    \E r \in Recs("c1") :
        /\ sess["c1"].ttl # None
        /\ r.op = "pop_item" /\ r.calls = <<"rpop", "expire">>
        /\ r.t1 > r.t0

(***************************************************************************)
(* C18. In the document store get_items(limit=k) with k <= 0 does not      *)
(* raise and returns all N stored items, for every k <= 0 and N >= 0.      *)
(***************************************************************************)
NonPositive(r) == r.op = "get_items" /\ r.arg # None /\ r.arg[1] <= 0

C18_NonPositiveLimitReadsAll ==
    \A c \in Callers : \A r \in Recs(c) :
        (sess[c].backend = "dynamodb" /\ NonPositive(r))
        => r.out = "ok" /\ r.val = PreItems(c, r)

(***************************************************************************)
(* C18, amended.  In the document store get_items(limit=k) with k <= 0     *)
(* does not raise; it returns the stored items from position |k| on: all N *)
(* items for k = 0, all but the first min(|k|, N) items for k < 0.         *)
(***************************************************************************)
C18_NonPositiveLimitDropsHead ==
    \A c \in Callers : \A r \in Recs(c) :
        (sess[c].backend = "dynamodb" /\ NonPositive(r))
        => /\ r.out = "ok"
           /\ r.val = Tail_(PreItems(c, r),
                            Len(PreItems(c, r)) - Min(0 - r.arg[1], Len(PreItems(c, r))))

\* get_items(limit=-2) of three stored items returns the last one
C18_Witness ==
    \E r \in Recs("c1") :
        /\ sess["c1"].backend = "dynamodb"
        /\ r.op = "get_items" /\ r.arg = Some(-2)
        /\ Len(PreItems("c1", r)) = 3
        /\ r.val = <<PreItems("c1", r)[3]>>

(***************************************************************************)
(* C19. A list-store add_items of a non-empty batch serializes every item  *)
(* first, then issues exactly one push carrying the whole batch in input   *)
(* order, then the expiration refresh; whichever call fails, the stored    *)
(* list afterwards holds none of the batch or the whole batch.             *)
(***************************************************************************)
C19_OnePushWholeBatch ==
    \A c \in Callers : \A r \in Recs(c) :
        (sess[c].backend = "redis" /\ r.op = "add_items" /\ r.arg # <<>>)
        => IF Unserializable(r.arg)
           THEN r.out = "TypeError" /\ r.calls = <<>> /\ r.post = r.pre
           ELSE /\ r.calls \in {<<"rpush">>, <<"rpush", "expire">>}
                /\ (r.out = "ok" /\ sess[c].ttl # None)
                   => r.calls = <<"rpush", "expire">>
                /\ r.out = "ok" \/ r.calls = <<"rpush", "expire">>
                   => PostItems(c, r) = PreItems(c, r) \o Json(r.arg)
                /\ PostItems(c, r) = PreItems(c, r)
                   \/ PostItems(c, r) = PreItems(c, r) \o Json(r.arg)

\* expire raised after the push of a batch of two behind a stored item
C19_Witness ==
    \E r \in Recs("c1") :
        /\ sess["c1"].backend = "redis"
        /\ r.op = "add_items" /\ r.out = "BackendError" /\ Len(r.arg) = 2
        /\ r.calls = <<"rpush", "expire">>
        /\ PreItems("c1", r) # <<>>
        /\ PostItems("c1", r) = PreItems("c1", r) \o Json(r.arg)

(***************************************************************************)
(* C20. A list-store add_items of two or more items that a backend failure *)
(* interrupts can leave a non-empty proper prefix of the batch stored:     *)
(* wherever such a call can fail, it can fail leaving such a prefix.       *)
(***************************************************************************)
\* The last call of c was a failed add_items that left part of its batch
LeftProperPrefix(c) ==
    \E r \in Recs(c) :
        /\ sess[c].backend = "redis"
        /\ r.op = "add_items" /\ r.out = "BackendError"
        /\ \E k \in 1..(Len(r.arg) - 1) :
             PostItems(c, r) = PreItems(c, r) \o SubSeq(Json(r.arg), 1, k)

C20_FailedAddCanLeavePrefix ==
    \A c \in {"c1"} :
        (/\ sess[c].backend = "redis"
         /\ \/ pc[c] = "idle" /\ Len(StoredItems(sess[c])) + 2 <= MaxLen
            \/ pc[c] = "add_items_refresh_ttl" /\ Len(frame[c].arg) >= 2)
        => ENABLED (NextFail /\ LeftProperPrefix(c)')

(***************************************************************************)
(* C20, amended.  A list-store add_items of two or more items that a       *)
(* backend failure interrupts never leaves a non-empty proper prefix of    *)
(* the batch: the batch travels in one push command, so the list holds     *)
(* none of it (the push did not run) or all of it (the push ran and the    *)
(* reply or the expiration refresh failed).                                *)
(***************************************************************************)
C20_FailedAddLeavesNoPrefix ==
    \A c \in Callers :
        /\ ~LeftProperPrefix(c)
        /\ \A r \in Recs(c) :
             (sess[c].backend = "redis" /\ r.op = "add_items"
              /\ r.out = "BackendError" /\ Len(r.arg) >= 2)
             => Len(PostItems(c, r)) - Len(PreItems(c, r)) \in {0, Len(r.arg)}

\* rpush raised although the server had appended the batch of two
C20_Witness ==
    \E r \in Recs("c1") :
        /\ sess["c1"].backend = "redis"
        /\ r.op = "add_items" /\ r.out = "BackendError" /\ Len(r.arg) = 2
        /\ r.calls = <<"rpush">>
        /\ Len(PostItems("c1", r)) = Len(PreItems("c1", r)) + 2

(***************************************************************************)
(* C21. In the list store with a TTL every get_items, pop_item and         *)
(* non-empty add_items issues its list command and then exactly one        *)
(* expire(key, ttl), pop_item also when it found no list; clear_session    *)
(* issues only a delete.  Without a TTL no expire is issued and no key     *)
(* ever carries an expiration.                                             *)
(***************************************************************************)
\* The list command of a call recorded as r ("" when it has none)
ListCommand(r) ==
    IF r.op = "get_items" THEN "lrange"
    ELSE IF r.op = "pop_item" THEN "rpop"
    ELSE IF r.op = "add_items" /\ r.arg # <<>> THEN "rpush"
    ELSE ""

C21_OneExpireAfterListCommand ==
    \A c \in Callers :
      LET s == sess[c] IN
      s.backend = "redis" =>
        /\ \A r \in Recs(c) :
             /\ r.out = "ok"
             /\ r.op = "clear_session" => r.calls = <<"delete">>
             /\ (ListCommand(r) # "" /\ s.ttl # None)
                => /\ r.calls = <<ListCommand(r), "expire">>
                   /\ r.post # None => ExpiryOf(s, r.post) = Some(r.t1 + s.ttl[1])
             /\ (ListCommand(r) # "" /\ s.ttl = None)
                => r.calls = <<ListCommand(r)>>
        /\ s.ttl = None => \A k \in DOMAIN redis : redis[k].expire_at = None

\* under a TTL, pop_item of a session without a key has run rpop and expire
C21_Witness ==
    \E r \in Recs("c1") :
        /\ sess["c1"].backend = "redis" /\ sess["c1"].ttl # None
        /\ r.op = "pop_item" /\ r.pre = None /\ r.val = None
        /\ r.calls = <<"rpop", "expire">>
        /\ r.t0 > 0

(***************************************************************************)
(* C22. The document store issues a fixed sequence of calls per operation: *)
(* get_items one get_item; a non-empty add_items one get_item then one     *)
(* put_item; clear_session one delete_item, whatever is stored; pop_item   *)
(* one get_item and, only if it read an item, one put_item of the sequence *)
(* without its last element.  So pop_item of an empty or missing session   *)
(* writes nothing, and pop_item of the last item leaves a record holding   *)
(* an empty array.                                                         *)
(***************************************************************************)
C22_FixedCallSequence ==
    \A c \in Callers : \A r \in Recs(c) :
      LET S == PreItems(c, r) IN
      sess[c].backend = "dynamodb" =>
        /\ r.out = "ok"
        /\ r.op = "get_items" => r.calls = <<"get_item">> /\ r.post = r.pre
        /\ (r.op = "add_items" /\ r.arg # <<>>)
           => /\ r.calls = <<"get_item", "put_item">>
              /\ r.post # None
              /\ r.post[1].conversation_data.S = json_dumps(S \o Json(r.arg))
        /\ r.op = "clear_session" => r.calls = <<"delete_item">> /\ r.post = None
        /\ (r.op = "pop_item" /\ S = <<>>)
           => r.calls = <<"get_item">> /\ r.post = r.pre
        /\ (r.op = "pop_item" /\ S # <<>>)
           => /\ r.calls = <<"get_item", "put_item">>
              /\ r.post # None
              /\ r.post[1].conversation_data.S = json_dumps(Front(S))

\* pop_item removed the only item: the record stays and holds "[]"
C22_Witness ==
    \E r \in Recs("c1") :
        /\ sess["c1"].backend = "dynamodb"
        /\ r.op = "pop_item" /\ Len(PreItems("c1", r)) = 1
        /\ r.post # None
        /\ r.post[1].conversation_data.S = json_dumps(<<>>)
        /\ StoredEntry(sess["c1"], redis, tables) = r.post

(***************************************************************************)
(* C23. In the document store, however concurrent pop_item calls on one    *)
(* session_id interleave, each stored item is returned by at most one      *)
(* pop_item (so that as many items leave the stored sequence as pop_item   *)
(* calls returned an item).  Every item passed to add_items here is new,   *)
(* so an item stands for one stored occurrence.                            *)
(***************************************************************************)
C23_PoppedAtMostOnce ==
    sess["c1"].backend = "dynamodb" =>
      \A x \in BagToSet(popped) : CopiesIn(x, popped) <= 1

(***************************************************************************)
(* C23, amended.  A document-store pop_item whose record nobody wrote      *)
(* between its get_item and its put_item removes exactly the item it       *)
(* returns, the last one stored.  A pop_item whose record was written in   *)
(* between still returns the last item it read and writes back what it     *)
(* read without that item: two concurrent calls can both return the same   *)
(* stored item, removed once.                                              *)
(***************************************************************************)
\* The step taken is the put_item and return of a pop_item of c
PopPutStep(c) == pc[c] = "pop_item_put_items" /\ pc'[c] = "idle"

C23_PopOfUnchangedRecord ==
    [][\A c \in Callers :
         (sess[c].backend = "dynamodb" /\ PopPutStep(c))
         => LET S == StoredItems(sess[c])
                R == frame[c].tmp
                r == hist'[c][Len(hist'[c])]
            IN /\ r.op = "pop_item" /\ r.val = Some(R[Len(R)])
               /\ EntryItems(sess[c], r.post) = Front(R)
               /\ StoredEntry(sess[c], redis, tables) = frame[c].pre
                  => /\ S = R
                     /\ EntryItems(sess[c], r.post) = Front(S)
                     /\ r.val = Some(S[Len(S)])]_vars

\* a pop_item has returned the item that a second pop_item, which read the
\* same record, is about to return too
C23_Witness ==
    /\ sess["c1"].backend = "dynamodb"
    /\ pc["c2"] = "pop_item_put_items"
    /\ \E r \in Recs("c1") :
         /\ r.op = "pop_item" /\ r.pre = frame["c2"].pre
         /\ r.val = Some(frame["c2"].tmp[Len(frame["c2"].tmp)])
         /\ Len(frame["c2"].tmp) = 2

(***************************************************************************)
(* SpecClear: two callers share one session_id; c1 clears and reads while  *)
(* the add_items and pop_item calls of c2 interleave with it.  Every item  *)
(* passed to add_items is new, so none is ever added again.                *)
(***************************************************************************)
InitClear ==
    /\ InitStores
    /\ obs = [keep |-> 2, track |-> TRUE]
    /\ \E b \in Backends :
         sess = [c \in Callers |-> Session(b, "a", default_key_prefix, None)]

NextClear ==
    \/ Redis_clear_session("c1")
    \/ Redis_get_items("c1", None)
    \/ \E len \in 1..MaxBatch :
         MayAdd(len) /\ Redis_add_items("c2", FreshBatch("c2", len))
    \/ MayPop /\ Redis_pop_item("c2")
    \/ DynamoDB_clear_session("c1")
    \/ DynamoDB_get_items("c1", None)
    \/ \E len \in 1..MaxBatch :
         MayAdd(len) /\ DynamoDB_add_items("c2", FreshBatch("c2", len))
    \/ DynamoDB_add_items_put_items("c2")
    \/ MayPop /\ DynamoDB_pop_item("c2")
    \/ DynamoDB_pop_item_put_items("c2")

SpecClear == InitClear /\ [][NextClear]_vars

(***************************************************************************)
(* C24. In both backends, once clear_session has returned, the items it    *)
(* deleted never come back, however the add_items and pop_item calls of    *)
(* another caller that were in progress interleave: the stored sequence    *)
(* and every later get_items hold none of them.                            *)
(***************************************************************************)
\* The items deleted by the clear_session recorded as r
Cleared(c, r) == Range(PreItems(c, r))

ClearedStayGone(c) ==
    \A i \in 1..Len(hist[c]) :
        hist[c][i].op = "clear_session"
        => /\ Range(StoredItems(sess[c])) \cap Cleared(c, hist[c][i]) = {}
           /\ \A j \in (i + 1)..Len(hist[c]) :
                hist[c][j].op = "get_items"
                => Range(hist[c][j].val) \cap Cleared(c, hist[c][i]) = {}

C24_ClearedNeverReappear == \A c \in Callers : ClearedStayGone(c)

(***************************************************************************)
(* C24, amended.  In the list store the items a clear_session deleted      *)
(* never come back.  In the document store they come back in one way only: *)
(* an add_items or pop_item of another caller that read the record before  *)
(* the clear writes back, with its put_item, the sequence it read.  No     *)
(* other step stores an item that was not stored and is not in the batch   *)
(* of the add_items taking the step.                                       *)
(***************************************************************************)
\* The batch of the add_items of c that stores its items in the step taken
StoringBatch(c) ==
    IF pc[c] = "add_items_put_items" /\ pc'[c] = "idle"
    THEN Range(Json(frame[c].arg))
    ELSE IF /\ pc[c] = "idle" /\ hist'[c] # hist[c]
            /\ hist'[c][Len(hist'[c])].op = "add_items"
    THEN Range(Json(hist'[c][Len(hist'[c])].arg))
    ELSE {}

\* The step taken is the put_item of a call of c whose record has changed
\* since the call read it
StalePutStep(c) ==
    /\ sess[c].backend = "dynamodb"
    /\ pc[c] \in {"add_items_put_items", "pop_item_put_items"} /\ pc'[c] = "idle"
    /\ StoredEntry(sess[c], redis, tables) # frame[c].pre

C24_ClearedReappearOnlyByStalePut ==
    /\ [](\A c \in Callers : sess[c].backend = "redis" => ClearedStayGone(c))
    /\ [][\/ \E c \in Callers : StalePutStep(c)
          \/ Range(StoredItems(sess["c1"])') \ Range(StoredItems(sess["c1"]))
               \subseteq UNION {StoringBatch(c) : c \in Callers}]_vars

\* list store: get_items after clear_session of two items returns only an
\* item added since
C24_Witness ==
    /\ sess["c1"].backend = "redis"
    /\ Len(hist["c1"]) = 2
    /\ hist["c1"][1].op = "clear_session"
    /\ Cardinality(Cleared("c1", hist["c1"][1])) = 2
    /\ hist["c1"][2].op = "get_items" /\ hist["c1"][2].val # <<>>

(***************************************************************************)
(* C25. In the list store with a TTL, whenever no call on the session is   *)
(* in progress, a key that exists has an expiration with at most TTL       *)
(* seconds left, also after an add_items that failed between its push and  *)
(* its expire command.                                                     *)
(***************************************************************************)
\* The key of s, if there is one, expires within the TTL of s
ExpiresWithinTTL(s) ==
    Redis_key(s) \in DOMAIN redis
    => /\ redis[Redis_key(s)].expire_at # None
       /\ redis[Redis_key(s)].expire_at[1] - now <= s.ttl[1]

C25_IdleKeyExpires ==
    \A c \in Callers :
        (sess[c].backend = "redis" /\ sess[c].ttl # None /\ AllReturned)
        => ExpiresWithinTTL(sess[c])

(***************************************************************************)
(* C26. The list-store key is "<key_prefix>:<session_id>", the default     *)
(* prefix being "openai_agents_session", and two RedisSession objects on   *)
(* one client address the same key only if they have the same key_prefix   *)
(* and the same session_id, also when either string contains ':'.          *)
(***************************************************************************)
\* The key of s is spelled as documented
KeySpelled(s) ==
    /\ Redis_key(s) = s.key_prefix \o ":" \o s.session_id
    /\ default_key_prefix = "openai_agents_session"
    /\ Redis_key(Session("redis", s.session_id, default_key_prefix, None))
         = "openai_agents_session:" \o s.session_id

C26_KeyInjective ==
    \A c, d \in Callers :
        (sess[c].backend = "redis" /\ sess[d].backend = "redis")
        => /\ KeySpelled(sess[c])
           /\ Redis_key(sess[c]) = Redis_key(sess[d])
              => /\ sess[c].key_prefix = sess[d].key_prefix
                 /\ sess[c].session_id = sess[d].session_id

(***************************************************************************)
(* C26, amended.  The key is "<key_prefix>:<session_id>" with the default  *)
(* prefix "openai_agents_session".  Two RedisSession objects with the same *)
(* key_prefix address the same key only if they have the same session_id,  *)
(* and two with the same session_id only if they have the same key_prefix; *)
(* with different prefixes and different ids containing ':' the keys can   *)
(* coincide.  Every key in the store is the key of its session.            *)
(***************************************************************************)
C26_KeyInjectivePerPrefix ==
    /\ \A c \in Callers : sess[c].backend = "redis" => KeySpelled(sess[c])
    /\ \A p, q \in KeyPrefixes : \A i, j \in SessionIds :
         LET s1 == Session("redis", i, p, None)
             s2 == Session("redis", j, q, None)
         IN (Redis_key(s1) = Redis_key(s2) /\ (p = q \/ i = j)) => (p = q /\ i = j)
    /\ DOMAIN redis \subseteq {Redis_key(sess[c]) : c \in Callers}

\* two sessions with one prefix and different ids each hold their own list
C26_Witness ==
    /\ sess["c1"].backend = "redis"
    /\ sess["c1"].key_prefix = sess["c2"].key_prefix
    /\ sess["c1"].session_id = "a:b" /\ sess["c2"].session_id = "b"
    /\ DOMAIN redis = {Redis_key(sess["c1"]), Redis_key(sess["c2"])}
    /\ Cardinality(DOMAIN redis) = 2

(***************************************************************************)
(* create_table_if_not_exists and the table administration of DynamoDB.    *)
(***************************************************************************)
\* describe_table: the description, or None for ResourceNotFoundException
describe_table(sch, TableName) ==
    IF TableName \in DOMAIN sch THEN Some(sch[TableName]) ELSE None

\* create_table: the new table is being created, its expiration disabled
create_table(sch, TableName) ==
    MapPut(sch, TableName, TableDescription("CREATING", FALSE))

\* update_time_to_live with Enabled True and AttributeName "ttl"
update_time_to_live(sch, TableName) ==
    [sch EXCEPT ![TableName].TimeToLive = [Enabled |-> TRUE, AttributeName |-> "ttl"]]

\* DynamoDB finishes the creation of table t
DynamoDB_table_active(t) ==
    /\ t \in DOMAIN schema /\ schema[t].TableStatus = "CREATING"
    /\ schema' = [schema EXCEPT ![t].TableStatus = "ACTIVE"]
    /\ UNCHANGED <<now, redis, tables, sess, pc, frame, hist, obs, added, popped>>

\* create_table_if_not_exists that goes on to create_table whatever it found
create_table_if_not_exists_unchecked(c, table_name, enable_ttl) ==
    /\ pc[c] = "idle"
    /\ UNCHANGED <<now, redis, tables, schema, sess, obs, added, popped>>
    /\ Suspend(c, "create_table",
               Call(c, "create_table_if_not_exists", <<table_name, enable_ttl>>,
                    <<"describe_table">>, <<>>))

\* create_table_if_not_exists up to the reply of describe_table
create_table_if_not_exists(c, table_name, enable_ttl) ==
    LET f == Call(c, "create_table_if_not_exists", <<table_name, enable_ttl>>,
                  <<"describe_table">>, <<>>)
    IN /\ pc[c] = "idle"
       /\ UNCHANGED <<now, redis, tables, schema, sess, obs, added, popped>>
       /\ IF describe_table(schema, table_name) # None
          THEN Return(c, f, "ok", None, redis, tables)
          ELSE Suspend(c, "create_table", f)

\* create_table_if_not_exists: create_table; it raises if the table is there
create_table_if_not_exists_create_table(c) ==
    LET f == WithCall(frame[c], "create_table")
        table_name == frame[c].arg[1]
    IN /\ pc[c] = "create_table"
       /\ IF table_name \in DOMAIN schema
          THEN /\ UNCHANGED <<now, redis, tables, schema, sess, obs, added, popped>>
               /\ Return(c, f, "ResourceInUseException", None, redis, tables)
          ELSE /\ schema' = create_table(schema, table_name)
               /\ tables' = MapPut(tables, table_name, EmptyMap)
               /\ UNCHANGED <<now, redis, sess, obs, added, popped>>
               /\ Suspend(c, "waiter_wait", f)

\* create_table_if_not_exists: the table_exists waiter returns
create_table_if_not_exists_waiter_wait(c) ==
    LET f == WithCall(frame[c], "waiter.wait")
        table_name == frame[c].arg[1]
        enable_ttl == frame[c].arg[2]
    IN /\ pc[c] = "waiter_wait"
       /\ describe_table(schema, table_name) # None
       /\ schema[table_name].TableStatus = "ACTIVE"
       /\ UNCHANGED <<now, redis, tables, schema, sess, obs, added, popped>>
       /\ IF enable_ttl
          THEN Suspend(c, "update_time_to_live", f)
          ELSE Return(c, f, "ok", None, redis, tables)

\* create_table_if_not_exists: update_time_to_live
create_table_if_not_exists_update_time_to_live(c) ==
    LET f == WithCall(frame[c], "update_time_to_live")
        table_name == frame[c].arg[1]
    IN /\ pc[c] = "update_time_to_live"
       /\ schema' = update_time_to_live(schema, table_name)
       /\ UNCHANGED <<now, redis, tables, sess, obs, added, popped>>
       /\ Return(c, f, "ok", None, redis, tables)

(***************************************************************************)
(* SpecTable: one caller provisions tables with create_table_if_not_exists *)
(* and uses a session of the table "test_table" once that table is active, *)
(* call after call.  The table is there at the start, or it is not.        *)
(***************************************************************************)
NewTableNames == TableNames \cup {"other_table"}

TableActive(t) == t \in DOMAIN schema /\ schema[t].TableStatus = "ACTIVE"

InitTable ==
    /\ now = 0
    /\ redis = EmptyMap
    /\ \E ts \in SUBSET TableNames, ttl_enabled \in BOOLEAN :
         /\ schema = [t \in ts |-> TableDescription("ACTIVE", ttl_enabled)]
         /\ tables = [t \in ts |-> EmptyMap]
    /\ pc = [c \in Callers |-> "idle"]
    /\ frame = [c \in Callers |-> IdleFrame]
    /\ hist = [c \in Callers |-> <<>>]
    /\ added = {}
    /\ popped = EmptyBag
    /\ obs = [keep |-> 2, track |-> FALSE]
    /\ sess = [c \in Callers |-> Session("dynamodb", "a", default_key_prefix, None)]

NextTable ==
    \/ \E t \in NewTableNames, enable_ttl \in BOOLEAN :
         create_table_if_not_exists("c1", t, enable_ttl)
    \/ create_table_if_not_exists_create_table("c1")
    \/ create_table_if_not_exists_waiter_wait("c1")
    \/ create_table_if_not_exists_update_time_to_live("c1")
    \/ \E t \in NewTableNames : DynamoDB_table_active(t)
    \/ /\ TableActive(sess["c1"].table_name)
       /\ \/ \E items \in BatchesTTL("c1") :
               Fits("c1", items) /\ DynamoDB_add_items("c1", items)
          \/ DynamoDB_get_items("c1", None)
          \/ DynamoDB_clear_session("c1")
    \/ DynamoDB_add_items_put_items("c1")

SpecTable == InitTable /\ [][NextTable]_vars

(***************************************************************************)
(* C27. create_table_if_not_exists is idempotent.  When the table exists   *)
(* it issues describe_table only (no create_table, no waiter, no           *)
(* update_time_to_live) and changes nothing.  When the table is absent it  *)
(* issues create_table, then waits for the table to exist, then calls      *)
(* update_time_to_live only if enable_ttl is true.  A second call in       *)
(* sequence leaves the table state of the first and does not raise.        *)
(***************************************************************************)
\* The calls create_table_if_not_exists makes when it creates the table
CreatingCalls(enable_ttl) ==
    <<"describe_table", "create_table", "waiter.wait">>
        \o (IF enable_ttl THEN <<"update_time_to_live">> ELSE <<>>)

\* Caller c enters create_table_if_not_exists in the step taken
CreateTableStep(c) ==
    /\ pc[c] = "idle"
    /\ \/ pc'[c] = "create_table"
       \/ /\ pc'[c] = "idle" /\ hist'[c] # hist[c]
          /\ hist'[c][Len(hist'[c])].op = "create_table_if_not_exists"

\* The table name passed to the call entered in the step taken
CreateTableName(c) ==
    IF pc'[c] = "idle" THEN hist'[c][Len(hist'[c])].arg[1] ELSE frame'[c].arg[1]

\* The call recorded as r created the table and left it as asked
CreatedAsAsked(r) ==
    /\ r.calls = CreatingCalls(r.arg[2])
    /\ TableActive(r.arg[1])
    /\ schema[r.arg[1]] = TableDescription("ACTIVE", r.arg[2])
    /\ r.arg[1] \in DOMAIN tables

C27_CreateTableIdempotent ==
    /\ [](\A c \in Callers : \A i \in 1..Len(hist[c]) :
            hist[c][i].op = "create_table_if_not_exists"
            => /\ hist[c][i].out = "ok"
               /\ hist[c][i].arg[1] \in DOMAIN schema
               /\ hist[c][i].pre = hist[c][i].post
               /\ \/ hist[c][i].calls = <<"describe_table">>
                  \/ CreatedAsAsked(hist[c][i])
               /\ (/\ i > 1
                   /\ hist[c][i - 1].op = "create_table_if_not_exists"
                   /\ hist[c][i - 1].arg[1] = hist[c][i].arg[1])
                  => hist[c][i].calls = <<"describe_table">>)
    /\ [][\A c \in Callers :
            CreateTableStep(c)
            => IF CreateTableName(c) \in DOMAIN schema
               THEN /\ pc'[c] = "idle"
                    /\ hist'[c][Len(hist'[c])].calls = <<"describe_table">>
                    /\ hist'[c][Len(hist'[c])].out = "ok"
                    /\ UNCHANGED <<now, redis, tables, schema, sess>>
               ELSE /\ pc'[c] = "create_table"
                    /\ UNCHANGED <<now, redis, tables, schema, sess>>]_vars
    /\ [][\A c \in Callers :
            (pc[c] = "create_table" /\ pc'[c] # pc[c])
            => /\ pc'[c] = "waiter_wait"
               /\ frame[c].arg[1] \notin DOMAIN schema
               /\ schema' = MapPut(schema, frame[c].arg[1],
                                   TableDescription("CREATING", FALSE))]_vars
    /\ [][\A c \in Callers :
            (pc[c] = "waiter_wait" /\ pc'[c] # pc[c])
            => /\ TableActive(frame[c].arg[1])
               /\ UNCHANGED <<tables, schema>>
               /\ pc'[c] = IF frame[c].arg[2] THEN "update_time_to_live" ELSE "idle"]_vars

\* Two calls in sequence for an absent table: the first creates it with its
\* expiration enabled, the second finds it
C27_Witness ==
    /\ Len(hist["c1"]) = 2
    /\ hist["c1"][1].op = "create_table_if_not_exists"
    /\ hist["c1"][1].calls = CreatingCalls(TRUE)
    /\ hist["c1"][2].op = "create_table_if_not_exists"
    /\ hist["c1"][2].arg = <<hist["c1"][1].arg[1], FALSE>>
    /\ hist["c1"][2].calls = <<"describe_table">>
    /\ schema[hist["c1"][1].arg[1]].TimeToLive.Enabled

====
